---- MODULE Spec2Model ----
(***************************************************************************)
(* letovo-computers-server: an MQTT subscriber that records, in a          *)
(* PostgreSQL store, which RFID tag placed a computer into / took a        *)
(* computer from which slot.                                               *)
(*                                                                         *)
(* Strings that the program only compares (tag ids, logins) are TLA+       *)
(* strings; the slot list, which the program splits on ';', is a sequence  *)
(* of one-character strings.                                               *)
(***************************************************************************)
EXTENDS Integers, Sequences, FiniteSets, TLC

VARIABLES
    users,      \* table users:  id -> login                 (rows that exist)
    slots,      \* table slots:  id -> [takenBy, isTaken]    (rows that exist)
    mainPc,     \* where func main is
    startPc,    \* where the goroutine running func start is
    quit,       \* the buffered channel quit (= doneChan), a sequence of signals
    recvq,      \* the goroutines parked in a receive on quit, first come first
    notified,   \* signal.Notify(quit, os.Interrupt) is in force
    tok,        \* the publish / subscribe tokens
    wg,         \* the sync.WaitGroup counter of start
    sigs,       \* interrupt signals the operating system has raised so far
    client,     \* the broker connection: "new", "connected", "disconnected"
    tasks,      \* the running invocations of the stream callback
    delivered,  \* number of messages the broker has delivered so far
    budget,     \* number of messages the broker delivers in this run
    last,       \* history: the payload handled by the latest callback run
    pre,        \* history: the store when that run began
    tried,      \* history: the slot ids that run issued an upsert for, in order
    failed,     \* history: the ids among them whose upsert returned an error
                \* (with callbacks running at once: the ids of any of them)
    userTried,  \* history: that run issued a user upsert
    userErr,    \* history: that run's user upsert returned an error
    prevBad,    \* history: the run before that one failed to decode its payload
    listed,     \* history: the <<slot row id, (tag, isTaken)>> of every slot
                \* that a delivered Placed / Taken event has listed
    commits,    \* history: per slot row, the (takenBy, isTaken) pair of the
                \* upsert the store accepted last
    overlap     \* history: the slot rows an upsert was accepted for while
                \* another running callback still had that slot to upsert

store == <<users, slots>>
life  == <<mainPc, startPc, quit, recvq, notified, tok, wg, sigs, client>>
hist  == <<last, pre, tried, failed, userTried, userErr, prevBad, listed,
           commits, overlap>>
vars  == <<users, slots, mainPc, startPc, quit, recvq, notified, tok, wg, sigs,
           client, tasks, delivered, budget, last, pre, tried, failed,
           userTried, userErr, prevBad, listed, commits, overlap>>

----------------------------------------------------------------------------
(* types/types.go *)

Placed       == 0
Taken        == 1
Scanned      == 2
Disconnected == 3

\* status integers outside the enumeration: one past it, one below it
UnknownStatus == 4
NegativeStatus == -1

\* the zero value of types.MQTTMessage, as new(types.MQTTMessage) returns it
ZeroMessage == [RFID |-> "", Slots |-> <<>>, Status |-> 0]

----------------------------------------------------------------------------
(* the schema *)

\* slots.id is CHAR(5), users.id is VARCHAR(20)
SlotIdWidth == 5
UserIdWidth == 20

\* the pre-seeded sentinel user
NullUser == "null"

\* CHAR(n) stores a shorter value blank-padded to n characters
Pad(id) == id \o [i \in 1..(SlotIdWidth - Len(id)) |-> " "]

\* the row of the users table after the seed script
SeedUsers == (NullUser :> "")

\* what the slots table accepts as a row: the id fits CHAR(5) and taken_by
\* references an existing user
SlotRowOkNoFK(us, id, takenBy) == Len(id) <= SlotIdWidth

SlotRowOk(us, id, takenBy) ==
    /\ Len(id) <= SlotIdWidth
    /\ takenBy \in DOMAIN us

\* what the users table accepts as a row: the id fits VARCHAR(20)
UserRowOk(id) == Len(id) <= UserIdWidth

----------------------------------------------------------------------------
(* the store's upserts: INSERT ... ON CONFLICT (id) DO UPDATE SET <columns> *)

\* models.Slot.UpsertG(ctx, true, {"id"}, Whitelist(updateColumns), Infer())
SlotUpsert(us, sl, row, updateColumns) ==
    IF ~SlotRowOk(us, row.ID, row.TakenBy)
    THEN [slots |-> sl, err |-> TRUE]
    ELSE LET k   == Pad(row.ID)
             new == [takenBy |-> row.TakenBy, isTaken |-> row.IsTaken]
             old == sl[k]
             upd == [takenBy |-> IF "taken_by" \in updateColumns
                                 THEN new.takenBy ELSE old.takenBy,
                     isTaken |-> IF "is_taken" \in updateColumns
                                 THEN new.isTaken ELSE old.isTaken]
         IN  IF k \in DOMAIN sl
             THEN [slots |-> [sl EXCEPT ![k] = upd], err |-> FALSE]
             ELSE [slots |-> (k :> new) @@ sl, err |-> FALSE]

\* models.User.UpsertG(ctx, true, {"id"}, Whitelist(updateColumns), Infer())
UserUpsert(us, row, updateColumns) ==
    IF ~UserRowOk(row.ID)
    THEN [users |-> us, err |-> TRUE]
    ELSE IF row.ID \in DOMAIN us
         THEN [users |-> IF "login" \in updateColumns
                         THEN [us EXCEPT ![row.ID] = row.Login] ELSE us,
               err |-> FALSE]
         ELSE [users |-> (row.ID :> row.Login) @@ us, err |-> FALSE]

----------------------------------------------------------------------------
(* what the broker can deliver on the device stream *)

Sep == ";"

\* every slot list of up to MaxSegs segments is delivered, and the lists of
\* ExampleLists
MaxSegs == 1

\* a slot id one character longer than the column takes
LongId == [i \in 1..(SlotIdWidth + 1) |-> "A"]

\* a slot id exactly as wide as the column
FullId == [i \in 1..SlotIdWidth |-> "B"]

\* a tag id one character longer than the column takes (21 characters)
LongTag == "T23456789012345678901"

Segs == {<<>>, <<"A">>, FullId, LongId}

\* tag ids: T1 and T2 fit the column, LongTag does not
RFIDs == {"T1", "T2"}

RECURSIVE Join(_)
Join(segs) ==
    IF Len(segs) = 1 THEN Head(segs)
    ELSE Head(segs) \o <<Sep>> \o Join(Tail(segs))

\* the list "A;;BBBBB;": an empty segment inside and one at the end
GappyList == Join(<< <<"A">>, <<>>, FullId, <<>> >>)

\* longer lists: the gappy one, a rejected id before and after a sibling,
\* two ids the column takes
ExampleLists ==
    { GappyList,
      Join(<<LongId, <<"A">>>>),
      Join(<<<<"A">>, LongId>>),
      Join(<<<<"A">>, FullId>>) }

SlotLists ==
    {Join(ss) : ss \in UNION {[1..n -> Segs] : n \in 1..MaxSegs}}
        \cup ExampleLists

\* A payload is what json.Unmarshal sees: bytes that are no JSON object
\* ("garbage"), an object whose status is a string ("badstatus"), or an
\* object with the three fields well typed ("json").
NoPayload == [kind |-> "none"]

Payloads ==
       [kind : {"json"}, RFID : RFIDs, slots : SlotLists, status : {Placed, Taken}]
  \cup [kind : {"json"}, RFID : RFIDs \cup {LongTag}, slots : {<<>>},
        status : {Scanned}]
  \cup [kind : {"json"}, RFID : {"T1"}, slots : {<<>>, <<"A">>},
        status : {Disconnected, UnknownStatus, NegativeStatus}]
  \cup [kind : {"badstatus"}, RFID : {"T1"}, slots : {<<"A">>}, status : {"x"}]
  \cup [kind : {"garbage"}, RFID : {""}, slots : {<<>>}, status : {0}]

\* What the broker delivers on the device-will topic: bytes its callback
\* never decodes ("will"), here ones that spell a Placed and a Taken event
WillPayloads ==
    [kind : {"will"}, RFID : {"T1"}, slots : {<<"A">>}, status : {Placed, Taken}]

\* What the broker delivers to callbacks running at once: lists of slot ids
\* the column takes, no empty segment.
StreamLists ==
    {Join(ss) : ss \in UNION {[1..n -> {<<"A">>, FullId}] : n \in 1..MaxSegs}}
        \cup {Join(<<<<"A">>, FullId>>), Join(<<FullId, <<"A">>>>)}

StreamPayloads ==
       [kind : {"json"}, RFID : RFIDs, slots : StreamLists, status : {Placed, Taken}]
  \cup [kind : {"json"}, RFID : RFIDs, slots : {<<>>}, status : {Scanned}]
  \cup [kind : {"json"}, RFID : {"T1"}, slots : {<<"A">>}, status : {Disconnected}]
  \cup [kind : {"garbage"}, RFID : {""}, slots : {<<>>}, status : {0}]

\* What the broker delivers in a run of the whole program: a Placed and a
\* Taken event, a Scanned one, and bytes that do not decode.
ProgramPayloads ==
    { [kind |-> "json", RFID |-> "T1", slots |-> <<"A">>, status |-> Placed],
      [kind |-> "json", RFID |-> "T2", slots |-> Join(<<<<"A">>, FullId>>),
       status |-> Taken],
      [kind |-> "json", RFID |-> "T2", slots |-> <<>>, status |-> Scanned],
      [kind |-> "garbage", RFID |-> "", slots |-> <<>>, status |-> 0] }

\* the store a run of the program may find: the seed, tags registered by
\* earlier runs (a login is filled in by whoever enrols the tag's owner),
\* and slots still at the sentinel
StartUsers ==
    { SeedUsers,
      ("T1" :> "alice") @@ SeedUsers }

\* the two stores a run of the whole program is started on: the seed, and
\* one where both tags are registered
Registered == ("T1" :> "alice") @@ ("T2" :> "") @@ SeedUsers

StartSlots ==
    { <<>>,
      (Pad(<<"A">>) :> [takenBy |-> NullUser, isTaken |-> FALSE]) }

----------------------------------------------------------------------------
(* the stream callback, main.go 124-200 *)

\* json.Unmarshal(resp.Payload(), message): a type mismatch leaves the field
\* at its zero value, decodes the others, and is reported as the error
DecodeNoErr(p) ==
    CASE p.kind = "json"      -> [err |-> FALSE,
                                  msg |-> [RFID |-> p.RFID, Slots |-> p.slots,
                                           Status |-> p.status]]
      [] p.kind = "badstatus" -> [err |-> FALSE,
                                  msg |-> [RFID |-> p.RFID, Slots |-> p.slots,
                                           Status |-> 0]]
      [] OTHER                -> [err |-> FALSE, msg |-> ZeroMessage]

Decode(p) ==
    CASE p.kind = "json"      -> [err |-> FALSE,
                                  msg |-> [RFID |-> p.RFID, Slots |-> p.slots,
                                           Status |-> p.status]]
      [] p.kind = "badstatus" -> [err |-> TRUE,
                                  msg |-> [RFID |-> p.RFID, Slots |-> p.slots,
                                           Status |-> 0]]
      [] OTHER                -> [err |-> TRUE, msg |-> ZeroMessage]

\* strings.Split(s, ";"): the segments between separators, empty ones kept
RECURSIVE Split(_)
Split(s) ==
    IF \A i \in 1..Len(s) : s[i] # Sep THEN <<s>>
    ELSE LET i == CHOOSE j \in 1..Len(s) :
                     s[j] = Sep /\ \A h \in 1..(j - 1) : s[h] # Sep
         IN  <<SubSeq(s, 1, i - 1)>> \o Split(SubSeq(s, i + 1, Len(s)))

\* One iteration of the loop over the segments (main.go 146-162, 170-186).
\* acc = [slots, tried, failed, stop]; stop is never set: a failed upsert
\* is logged and the loop goes on.
Upserted(acc, slotID, r, stop) ==
    [slots  |-> r.slots,
     tried  |-> Append(acc.tried, slotID),
     failed |-> IF r.err THEN acc.failed \cup {slotID} ELSE acc.failed,
     stop   |-> stop /\ r.err]

SlotIterKeepEmpty(us, acc, slotID, rfid, isTaken) ==
    Upserted(acc, slotID,
             SlotUpsert(us, acc.slots,
                        [ID |-> slotID, TakenBy |-> rfid, IsTaken |-> isTaken],
                        {"taken_by", "is_taken"}),
             FALSE)

SlotIterBreak(us, acc, slotID, rfid, isTaken) ==
    IF slotID = <<>> THEN acc
    ELSE Upserted(acc, slotID,
                  SlotUpsert(us, acc.slots,
                      [ID |-> slotID, TakenBy |-> rfid, IsTaken |-> isTaken],
                      {"taken_by", "is_taken"}),
                  TRUE)

SlotIterToggle(us, acc, slotID, rfid, isTaken) ==
    IF slotID = <<>> THEN acc
    ELSE Upserted(acc, slotID,
                  SlotUpsert(us, acc.slots,
                      [ID |-> slotID, TakenBy |-> rfid,
                       IsTaken |-> IF Pad(slotID) \in DOMAIN acc.slots
                                   THEN ~acc.slots[Pad(slotID)].isTaken
                                   ELSE isTaken],
                      {"taken_by", "is_taken"}),
                  FALSE)

SlotIterTakenByOnly(us, acc, slotID, rfid, isTaken) ==
    IF slotID = <<>> THEN acc
    ELSE Upserted(acc, slotID,
                  SlotUpsert(us, acc.slots,
                      [ID |-> slotID, TakenBy |-> rfid, IsTaken |-> isTaken],
                      {"taken_by"}),
                  FALSE)

SlotIterNegated(us, acc, slotID, rfid, isTaken) ==
    IF slotID = <<>> THEN acc
    ELSE Upserted(acc, slotID,
                  SlotUpsert(us, acc.slots,
                      [ID |-> slotID, TakenBy |-> rfid, IsTaken |-> ~isTaken],
                      {"taken_by", "is_taken"}),
                  FALSE)

SlotIterSentinel(us, acc, slotID, rfid, isTaken) ==
    IF slotID = <<>> THEN acc
    ELSE Upserted(acc, slotID,
                  SlotUpsert(us, acc.slots,
                      [ID |-> slotID,
                       TakenBy |-> IF rfid \in DOMAIN us THEN rfid ELSE NullUser,
                       IsTaken |-> isTaken],
                      {"taken_by", "is_taken"}),
                  FALSE)

SlotIter(us, acc, slotID, rfid, isTaken) ==
    IF slotID = <<>> THEN acc
    ELSE Upserted(acc, slotID,
                  SlotUpsert(us, acc.slots,
                      [ID |-> slotID, TakenBy |-> rfid, IsTaken |-> isTaken],
                      {"taken_by", "is_taken"}),
                  FALSE)

\* the whole loop, run without another callback in between
RECURSIVE SlotLoop(_, _, _, _, _)
SlotLoop(us, acc, todo, rfid, isTaken) ==
    IF todo = <<>> \/ acc.stop THEN acc
    ELSE SlotLoop(us, SlotIter(us, acc, Head(todo), rfid, isTaken),
                  Tail(todo), rfid, isTaken)

NewAcc(sl) == [slots |-> sl, tried |-> <<>>, failed |-> {}, stop |-> FALSE]

\* case types.Placed / case types.Taken
PlacedCase(us, sl, message) ==
    SlotLoop(us, NewAcc(sl), Split(message.Slots), message.RFID, FALSE)

TakenCaseAsPlaced(us, sl, message) ==
    SlotLoop(us, NewAcc(sl), Split(message.Slots), message.RFID, FALSE)

TakenCase(us, sl, message) ==
    SlotLoop(us, NewAcc(sl), Split(message.Slots), message.RFID, TRUE)

\* case types.Scanned: User{ID: message.RFID}, Login at its zero value
ScannedCaseUpdateOnly(us, message) ==
    IF message.RFID \in DOMAIN us
    THEN UserUpsert(us, [ID |-> message.RFID, Login |-> ""], {"login"})
    ELSE [users |-> us, err |-> TRUE]

ScannedCase(us, message) ==
    UserUpsert(us, [ID |-> message.RFID, Login |-> ""], {"login"})

\* The callback run to its return. fatal: the run ended the process (it
\* never does: every error is logged with log.Error).
Returned(us, sl, decodeErr) ==
    [users |-> us, slots |-> sl, tried |-> <<>>, failed |-> {},
     decodeErr |-> decodeErr, userTried |-> FALSE, userErr |-> FALSE,
     fatal |-> FALSE]

AfterLoop(us, a) ==
    [Returned(us, a.slots, FALSE) EXCEPT !.tried = a.tried, !.failed = a.failed]

AfterUser(sl, r) ==
    [Returned(r.users, sl, FALSE) EXCEPT !.userTried = TRUE, !.userErr = r.err]

DispatchUnknownAsPlaced(us, sl, d) ==
    IF d.err THEN Returned(us, sl, TRUE)
    ELSE CASE d.msg.Status = Taken        -> AfterLoop(us, TakenCase(us, sl, d.msg))
           [] d.msg.Status = Scanned      -> AfterUser(sl, ScannedCase(us, d.msg))
           [] d.msg.Status = Disconnected -> Returned(us, sl, FALSE)
           [] OTHER                       -> AfterLoop(us, PlacedCase(us, sl, d.msg))

DispatchDisconnectedAsTaken(us, sl, d) ==
    IF d.err THEN Returned(us, sl, TRUE)
    ELSE CASE d.msg.Status = Placed       -> AfterLoop(us, PlacedCase(us, sl, d.msg))
           [] d.msg.Status = Taken        -> AfterLoop(us, TakenCase(us, sl, d.msg))
           [] d.msg.Status = Disconnected -> AfterLoop(us, TakenCase(us, sl, d.msg))
           [] d.msg.Status = Scanned      -> AfterUser(sl, ScannedCase(us, d.msg))
           [] OTHER                       -> Returned(us, sl, FALSE)

DispatchPlacedRegisters(us, sl, d) ==
    IF d.err THEN Returned(us, sl, TRUE)
    ELSE CASE d.msg.Status = Placed  ->
                [AfterLoop(ScannedCase(us, d.msg).users,
                           PlacedCase(ScannedCase(us, d.msg).users, sl, d.msg))
                    EXCEPT !.userTried = TRUE]
           [] d.msg.Status = Taken   -> AfterLoop(us, TakenCase(us, sl, d.msg))
           [] d.msg.Status = Scanned -> AfterUser(sl, ScannedCase(us, d.msg))
           [] OTHER                  -> Returned(us, sl, FALSE)

Dispatch(us, sl, d) ==
    IF d.err THEN Returned(us, sl, TRUE)
    ELSE CASE d.msg.Status = Placed  -> AfterLoop(us, PlacedCase(us, sl, d.msg))
           [] d.msg.Status = Taken   -> AfterLoop(us, TakenCase(us, sl, d.msg))
           [] d.msg.Status = Scanned -> AfterUser(sl, ScannedCase(us, d.msg))
           [] OTHER                  -> Returned(us, sl, FALSE)

Callback(us, sl, p) == Dispatch(us, sl, Decode(p))

\* the will callback, main.go 204-207: it logs the topic and the payload
WillCallback(us, sl, p) == Returned(us, sl, FALSE)

----------------------------------------------------------------------------
(* vocabulary of the histories and of the properties *)

IsPlacedOrTaken(p) == p.kind = "json" /\ p.status \in {Placed, Taken}

IsScanned(p) == p.kind = "json" /\ p.status = Scanned

\* the row a Placed / Taken event writes for each slot it lists
RowOf(p) == [takenBy |-> p.RFID, isTaken |-> (p.status = Taken)]

\* The non-empty segments of a list, said without splitting it: the
\* maximal runs of characters other than the separator.
Segments(s) ==
    LET first == {i \in 1..Len(s) : i = 1 \/ s[i - 1] = Sep}
        final == {j \in 1..Len(s) : j = Len(s) \/ s[j + 1] = Sep}
    IN  { SubSeq(s, ij[1], ij[2]) : ij \in
            { ij \in first \X final :
                /\ ij[1] <= ij[2]
                /\ \A h \in ij[1]..ij[2] : s[h] # Sep } }

Range(f) == {f[i] : i \in DOMAIN f}

\* the ids of a list that the slots column takes
Fitting(s) == {id \in Segments(s) : Len(id) <= SlotIdWidth}

\* what a payload on the device stream lists: for a Placed / Taken event,
\* each slot of its list with the event's tag and status; else nothing
Listing(p) ==
    IF IsPlacedOrTaken(p)
    THEN {<<Pad(id), RowOf(p)>> : id \in Segments(p.slots)}
    ELSE {}

----------------------------------------------------------------------------
(* bounds of the model *)

\* callback invocations that may run at once
MaxTasks == 2

\* messages the broker delivers in one run of the whole program
MaxDeliveries == 1

\* messages the broker delivers to callbacks that run at once
MaxRaces == 2

\* interrupt signals the operating system raises
MaxSignals == 1

Tokens == {"pub", "stream", "will"}

IdleTask == [pc |-> "idle", rfid |-> "", isTaken |-> FALSE, todo |-> <<>>]

\* the process has not ended
Alive == mainPc \in {"ping", "connect", "go", "notify", "recv", "blocked"}

\* the broker delivers on the device stream: the subscription is in place
Subscribed == Alive /\ client = "connected" /\ tok["stream"] = "ok"

\* the broker delivers on the device-will topic
WillSubscribed == Alive /\ client = "connected" /\ tok["will"] = "ok"

\* a payload json.Unmarshal returned an error for
Malformed(p) == p.kind \in {"badstatus", "garbage"}

NoHistory ==
    /\ last = NoPayload
    /\ tried = <<>>
    /\ failed = {}
    /\ userTried = FALSE
    /\ userErr = FALSE
    /\ prevBad = FALSE
    /\ listed = {}
    /\ commits = <<>>
    /\ overlap = {}

----------------------------------------------------------------------------
(* func main, main.go 35-92 *)

Init ==
    /\ users \in {SeedUsers, Registered}
    /\ slots = <<>>
    /\ mainPc = "ping"
    /\ startPc = "none"
    /\ quit = <<>>
    /\ recvq = <<>>
    /\ notified = FALSE
    /\ tok = [k \in Tokens |-> "none"]
    /\ wg = 0
    /\ sigs = 0
    /\ client = "new"
    /\ tasks = [t \in 1..MaxTasks |-> IdleTask]
    /\ delivered = 0
    /\ budget = MaxDeliveries
    /\ pre = [users |-> users, slots |-> slots]
    /\ NoHistory

\* db.Ping(): log.Fatal on an error
MainPing ==
    /\ mainPc = "ping"
    /\ \E ok \in BOOLEAN : mainPc' = IF ok THEN "connect" ELSE "fatal"
    /\ UNCHANGED <<users, slots, recvq, startPc, quit, notified, tok, wg, sigs,
                   client, tasks, delivered, budget, hist>>

MainConnectAfterGo ==
    /\ mainPc = "connect"
    /\ \E ok \in BOOLEAN :
          /\ mainPc' = IF ok THEN "notify" ELSE "fatal"
          /\ client' = IF ok THEN "connected" ELSE client
    /\ startPc' = "publish"
    /\ UNCHANGED <<users, slots, recvq, quit, notified, tok, wg, sigs,
                   tasks, delivered, budget, hist>>

\* client.Connect(): log.Fatal on an error
MainConnect ==
    /\ mainPc = "connect"
    /\ \E ok \in BOOLEAN :
          /\ mainPc' = IF ok THEN "go" ELSE "fatal"
          /\ client' = IF ok THEN "connected" ELSE client
    /\ UNCHANGED <<users, slots, recvq, startPc, quit, notified, tok, wg, sigs,
                   tasks, delivered, budget, hist>>

\* quit := make(chan os.Signal, 1); go func() { start(client, quit) ... }()
MainGo ==
    /\ mainPc = "go"
    /\ mainPc' = "notify"
    /\ startPc' = "publish"
    /\ quit' = <<>>
    /\ UNCHANGED <<users, slots, recvq, notified, tok, wg, sigs, client, tasks,
                   delivered, budget, hist>>

\* signal.Notify(quit, os.Interrupt)
MainNotify ==
    /\ mainPc = "notify"
    /\ mainPc' = "recv"
    /\ notified' = TRUE
    /\ UNCHANGED <<users, slots, recvq, startPc, quit, tok, wg, sigs, client, tasks,
                   delivered, budget, hist>>

\* <-quit: main takes a buffered signal, returns and the process ends; with
\* the buffer empty it parks until a signal is handed to it
MainRecv ==
    /\ mainPc = "recv"
    /\ IF quit # <<>>
       THEN /\ quit' = Tail(quit)
            /\ mainPc' = "exited"
            /\ recvq' = recvq
       ELSE /\ quit' = quit
            /\ mainPc' = "blocked"
            /\ recvq' = Append(recvq, "main")
    /\ UNCHANGED <<users, slots, startPc, notified, tok, wg, sigs, client,
                   tasks, delivered, budget, hist>>

\* The operating system raises an interrupt. Before Notify is in force the
\* default disposition ends the process. With it, the signal package sends
\* on quit without blocking: the value goes to the goroutine that has
\* waited longest, else into the buffer, else (buffer full) it is dropped.
Interrupt ==
    /\ Alive
    /\ sigs < MaxSignals
    /\ sigs' = sigs + 1
    /\ IF ~notified
       THEN /\ mainPc' = "killed"
            /\ UNCHANGED <<startPc, quit, recvq>>
       ELSE IF recvq # <<>>
       THEN /\ recvq' = Tail(recvq)
            /\ quit' = quit
            /\ mainPc' = IF Head(recvq) = "main" THEN "exited" ELSE mainPc
            /\ startPc' = IF Head(recvq) = "start" THEN "disconnect" ELSE startPc
       ELSE /\ quit' = IF Len(quit) < 1 THEN Append(quit, "interrupt") ELSE quit
            /\ UNCHANGED <<mainPc, startPc, recvq>>
    /\ UNCHANGED <<users, slots, notified, tok, wg, client, tasks,
                   delivered, budget, hist>>

----------------------------------------------------------------------------
(* func start, main.go 117-221; publish and subscribe, main.go 242-268 *)

\* publish(&wg, client, serverStreamTopic, "hi from go")
publish ==
    /\ Alive
    /\ startPc = "publish"
    /\ startPc' = "subStream"
    /\ wg' = wg + 1
    /\ tok' = [tok EXCEPT !["pub"] = "pending"]
    /\ UNCHANGED <<users, slots, recvq, mainPc, quit, notified, sigs, client, tasks,
                   delivered, budget, hist>>

\* subscribe(&wg, client, arduinoStreamTopic, 2, ...)
subscribeStream ==
    /\ Alive
    /\ startPc = "subStream"
    /\ startPc' = "subWill"
    /\ wg' = wg + 1
    /\ tok' = [tok EXCEPT !["stream"] = "pending"]
    /\ UNCHANGED <<users, slots, recvq, mainPc, quit, notified, sigs, client, tasks,
                   delivered, budget, hist>>

\* subscribe(&wg, client, arduinoWillTopic, 2, ...)
subscribeWill ==
    /\ Alive
    /\ startPc = "subWill"
    /\ startPc' = "wait"
    /\ wg' = wg + 1
    /\ tok' = [tok EXCEPT !["will"] = "pending"]
    /\ UNCHANGED <<users, slots, recvq, mainPc, quit, notified, sigs, client, tasks,
                   delivered, budget, hist>>

TokenDoneNoRelease(k) ==
    /\ Alive
    /\ tok[k] = "pending"
    /\ \E outcome \in {"ok", "err"} :
          /\ tok' = [tok EXCEPT ![k] = outcome]
          /\ wg' = IF outcome = "ok" THEN wg - 1 ELSE wg
    /\ UNCHANGED <<users, slots, recvq, mainPc, startPc, quit, notified, sigs, client,
                   tasks, delivered, budget, hist>>

\* the goroutine of publish / subscribe: <-t.Done(), log an error, wg.Done()
TokenDone(k) ==
    /\ Alive
    /\ tok[k] = "pending"
    /\ \E outcome \in {"ok", "err"} : tok' = [tok EXCEPT ![k] = outcome]
    /\ wg' = wg - 1
    /\ UNCHANGED <<users, slots, recvq, mainPc, startPc, quit, notified, sigs, client,
                   tasks, delivered, budget, hist>>

StartWaitNoWait ==
    /\ Alive
    /\ startPc = "wait"
    /\ startPc' = "select"
    /\ UNCHANGED <<users, slots, recvq, mainPc, quit, notified, tok, wg, sigs, client,
                   tasks, delivered, budget, hist>>

\* wg.Wait()
StartWait ==
    /\ Alive
    /\ startPc = "wait"
    /\ wg = 0
    /\ startPc' = "select"
    /\ UNCHANGED <<users, slots, recvq, mainPc, quit, notified, tok, wg, sigs, client,
                   tasks, delivered, budget, hist>>

\* select { case <-doneChan: ... }: start takes a buffered signal, or parks
StartRecv ==
    /\ Alive
    /\ startPc = "select"
    /\ IF quit # <<>>
       THEN /\ quit' = Tail(quit)
            /\ startPc' = "disconnect"
            /\ recvq' = recvq
       ELSE /\ quit' = quit
            /\ startPc' = "blocked"
            /\ recvq' = Append(recvq, "start")
    /\ UNCHANGED <<users, slots, mainPc, notified, tok, wg, sigs, client, tasks,
                   delivered, budget, hist>>

\* client.Disconnect(250), then return nil: the caller's err is nil and it
\* does nothing more
StartDisconnect ==
    /\ Alive
    /\ startPc = "disconnect"
    /\ client' = "disconnected"
    /\ startPc' = "returned"
    /\ UNCHANGED <<users, slots, mainPc, quit, recvq, notified, tok, wg, sigs,
                   tasks, delivered, budget, hist>>

----------------------------------------------------------------------------
(* the callbacks as the broker client invokes them *)

\* A message arrives on the device stream and its callback starts: it
\* decodes, and for Scanned upserts the user; for Placed / Taken it splits
\* the list and enters the loop, whose iterations are TaskStep.
Deliver(t, p) ==
    /\ Subscribed
    /\ delivered < budget
    /\ tasks[t] = IdleTask
    /\ \A u \in 1..(t - 1) : tasks[u] # IdleTask
    /\ delivered' = delivered + 1
    /\ LET d == Decode(p)
           m == d.msg
       IN  IF d.err \/ m.Status \notin {Placed, Taken, Scanned}
           THEN UNCHANGED <<users, slots, tasks>>
           ELSE IF m.Status = Scanned
           THEN /\ users' = ScannedCase(users, m).users
                /\ UNCHANGED <<slots, tasks>>
           ELSE /\ tasks' = [tasks EXCEPT ![t] =
                               [pc |-> "loop", rfid |-> m.RFID,
                                isTaken |-> (m.Status = Taken),
                                todo |-> Split(m.Slots)]]
                /\ UNCHANGED <<users, slots>>
    /\ listed' = listed \cup Listing(p)
    /\ UNCHANGED <<life, budget, last, pre, tried, failed, userTried, userErr,
                   prevBad, commits, overlap>>

\* one iteration of the loop of a running callback
TaskStep(t) ==
    /\ Alive
    /\ tasks[t].pc = "loop"
    /\ LET slotID == Head(tasks[t].todo)
           a == SlotIter(users, NewAcc(slots), slotID,
                         tasks[t].rfid, tasks[t].isTaken)
           rest == Tail(tasks[t].todo)
           accepted == a.tried # <<>> /\ a.failed = {}
           contended == \E u \in 1..MaxTasks :
                            /\ u # t
                            /\ tasks[u].pc = "loop"
                            /\ \E i \in DOMAIN tasks[u].todo :
                                   tasks[u].todo[i] = slotID
       IN  /\ slots' = a.slots
           /\ failed' = failed \cup a.failed
           /\ commits' = IF accepted
                         THEN (Pad(slotID) :> [takenBy |-> tasks[t].rfid,
                                               isTaken |-> tasks[t].isTaken])
                                   @@ commits
                         ELSE commits
           /\ overlap' = IF accepted /\ contended
                         THEN overlap \cup {Pad(slotID)} ELSE overlap
           /\ tasks' = [tasks EXCEPT ![t] =
                          IF rest = <<>> THEN IdleTask
                          ELSE [@ EXCEPT !.todo = rest]]
    /\ UNCHANGED <<users, life, delivered, budget, last, pre, tried, userTried,
                   userErr, prevBad, listed>>

\* a message arrives on the device-will topic: its callback only logs
DeliverWill ==
    /\ Alive
    /\ client = "connected"
    /\ tok["will"] = "ok"
    /\ delivered < budget
    /\ delivered' = delivered + 1
    /\ UNCHANGED <<users, slots, life, tasks, budget, hist>>

Next ==
    \/ MainPing
    \/ MainConnect
    \/ MainGo
    \/ MainNotify
    \/ MainRecv
    \/ Interrupt
    \/ publish
    \/ subscribeStream
    \/ subscribeWill
    \/ \E k \in Tokens : TokenDone(k)
    \/ StartWait
    \/ StartRecv
    \/ StartDisconnect
    \/ \E t \in 1..MaxTasks, p \in ProgramPayloads : Deliver(t, p)
    \/ \E t \in 1..MaxTasks : TaskStep(t)
    \/ DeliverWill

Spec == Init /\ [][Next]_vars

\* The goroutine running start is scheduled while it can take a step, and
\* every token completes: the client closes t.Done() on the acknowledgment,
\* on a refusal and on the loss of the connection.
Fairness ==
    /\ WF_vars(publish)
    /\ WF_vars(subscribeStream)
    /\ WF_vars(subscribeWill)
    /\ \A k \in Tokens : WF_vars(TokenDone(k))
    /\ WF_vars(StartWait)

SpecFair == Init /\ [][Next]_vars /\ Fairness

----------------------------------------------------------------------------
(* the stream callback run one message after another *)

\* start has subscribed and waits at its select, main is parked in <-quit
Serving ==
    /\ mainPc = "blocked"
    /\ startPc = "select"
    /\ quit = <<>>
    /\ recvq = <<"main">>
    /\ notified = TRUE
    /\ tok = [k \in Tokens |-> "ok"]
    /\ wg = 0
    /\ sigs = 0
    /\ client = "connected"
    /\ tasks = [t \in 1..MaxTasks |-> IdleTask]
    /\ delivered = 0

InitSeq ==
    /\ users \in StartUsers
    /\ slots \in StartSlots
    /\ Serving
    /\ budget = 0
    /\ pre = [users |-> users, slots |-> slots]
    /\ NoHistory

\* a message arrives and its callback runs to its return
Handle(p) ==
    /\ Subscribed
    /\ \E r \in {Callback(users, slots, p)} :
           /\ users' = r.users
           /\ slots' = r.slots
           /\ tried' = r.tried
           /\ failed' = r.failed
           /\ userTried' = r.userTried
           /\ userErr' = r.userErr
           /\ mainPc' = IF r.fatal THEN "fatal" ELSE mainPc
    /\ last' = p
    /\ prevBad' = Malformed(last)
    /\ pre' = [users |-> users, slots |-> slots]
    /\ UNCHANGED <<startPc, quit, recvq, notified, tok, wg, sigs, client,
                   tasks, delivered, budget, listed, commits, overlap>>

\* a message arrives on the device-will topic and its callback runs
HandleWill(p) ==
    /\ WillSubscribed
    /\ \E r \in {WillCallback(users, slots, p)} :
           /\ users' = r.users
           /\ slots' = r.slots
           /\ tried' = r.tried
           /\ failed' = r.failed
           /\ userTried' = r.userTried
           /\ userErr' = r.userErr
           /\ mainPc' = IF r.fatal THEN "fatal" ELSE mainPc
    /\ last' = p
    /\ prevBad' = Malformed(last)
    /\ pre' = [users |-> users, slots |-> slots]
    /\ UNCHANGED <<startPc, quit, recvq, notified, tok, wg, sigs, client,
                   tasks, delivered, budget, listed, commits, overlap>>

NextSeq ==
    \/ \E p \in Payloads : Handle(p)
    \/ \E p \in WillPayloads : HandleWill(p)

SpecSeq == InitSeq /\ [][NextSeq]_vars

----------------------------------------------------------------------------
(* callbacks running at once, their loop iterations interleaved *)

InitConc ==
    /\ users \in {SeedUsers, Registered}
    /\ slots = <<>>
    /\ Serving
    /\ budget = MaxRaces
    /\ pre = [users |-> users, slots |-> slots]
    /\ NoHistory

NextConc ==
    \/ \E t \in 1..MaxTasks, p \in StreamPayloads : Deliver(t, p)
    \/ \E t \in 1..MaxTasks : TaskStep(t)

SpecConc == InitConc /\ [][NextConc]_vars

----------------------------------------------------------------------------
(* properties of the callback run one message after another (SpecSeq) *)

\* C1: handling a Placed or Taken event with a non-empty slot list a second
\* time, right after the first, leaves the Slot rows and the User rows as
\* the first handling left them.
C1_Idempotent ==
    (IsPlacedOrTaken(last) /\ last.slots # <<>>) =>
        \E r \in {Callback(users, slots, last)} :
            r.slots = slots /\ r.users = users

\* a Placed / Taken event whose first handling wrote rows that were not there
C1_Witness ==
    /\ IsPlacedOrTaken(last)
    /\ tried # <<>>
    /\ failed = {}
    /\ slots # pre.slots

\* C2: after a Placed / Taken event of a registered tag has been handled,
\* every slot it lists holds the row of that event (takenBy = its tag,
\* isTaken = TRUE for Taken and FALSE for Placed), whatever the row was
\* before: the event handled last wins.
C2_LastWriteWins ==
    (IsPlacedOrTaken(last) /\ last.RFID \in DOMAIN pre.users) =>
        \A id \in Fitting(last.slots) :
            /\ Pad(id) \in DOMAIN slots
            /\ slots[Pad(id)] = RowOf(last)

\* Taken(T2, [A]) handled on a store where A was (T1, not taken), the row a
\* Placed(T1, [A]) had written
C2_Witness ==
    /\ IsPlacedOrTaken(last) /\ last.status = Taken /\ last.RFID = "T2"
    /\ last.slots = <<"A">>
    /\ Pad(<<"A">>) \in DOMAIN pre.slots
    /\ pre.slots[Pad(<<"A">>)] = [takenBy |-> "T1", isTaken |-> FALSE]
    /\ slots[Pad(<<"A">>)] = [takenBy |-> "T2", isTaken |-> TRUE]

\* C3: the ids a Placed / Taken event issues an upsert for are exactly the
\* non-empty segments of its slot list; no empty segment is upserted, an
\* empty list upserts nothing, and no row of another slot is created or
\* changed. Any other payload upserts no slot.
C3_ExactlyTheListed ==
    /\ IsPlacedOrTaken(last) =>
          /\ Range(tried) = Segments(last.slots)
          /\ <<>> \notin Range(tried)
          /\ (last.slots = <<>> => tried = <<>>)
          /\ \A k \in (DOMAIN slots \cup DOMAIN pre.slots)
                        \ {Pad(id) : id \in Segments(last.slots)} :
                /\ k \in DOMAIN slots /\ k \in DOMAIN pre.slots
                /\ slots[k] = pre.slots[k]
    /\ ~IsPlacedOrTaken(last) => (tried = <<>> /\ slots = pre.slots)

\* "A;;BBBBB;" handled for a registered tag: both rows written, nothing else
C3_Witness ==
    /\ IsPlacedOrTaken(last)
    /\ last.slots = GappyList
    /\ tried = << <<"A">>, FullId >>
    /\ failed = {}
    /\ slots[Pad(<<"A">>)] = RowOf(last)
    /\ slots[FullId] = RowOf(last)

\* C4 as stated: a Scanned event for a tag without a User row leaves a User
\* row with that id, and a Placed / Taken event of a tag that has a User row
\* has every slot upsert accepted, each listed slot ending with that tag.
C4_AsStated ==
    /\ (IsScanned(last) /\ last.RFID \notin DOMAIN pre.users) =>
          last.RFID \in DOMAIN users
    /\ (IsPlacedOrTaken(last) /\ last.RFID \in DOMAIN pre.users) =>
          /\ failed = {}
          /\ \A id \in Segments(last.slots) :
                Pad(id) \in DOMAIN slots /\ slots[Pad(id)].takenBy = last.RFID

\* C4, amended: a Scanned event for a tag id of at most 20 characters leaves
\* a User row with that id; no run removes a User row; and a Placed / Taken
\* event of a tag that has a User row has no upsert rejected for its
\* taken_by: the only ids rejected are those longer than 5 characters, and
\* every other listed slot ends with takenBy = that tag.
C4_ForeignKeySafe ==
    /\ \A u \in DOMAIN pre.users : u \in DOMAIN users
    /\ (IsScanned(last) /\ Len(last.RFID) <= UserIdWidth) =>
          (last.RFID \in DOMAIN users /\ ~userErr)
    /\ (IsPlacedOrTaken(last) /\ last.RFID \in DOMAIN pre.users) =>
          /\ failed = {id \in Segments(last.slots) : Len(id) > SlotIdWidth}
          /\ \A id \in Fitting(last.slots) :
                Pad(id) \in DOMAIN slots /\ slots[Pad(id)].takenBy = last.RFID

\* T2 is in no start store: its User row is there because a Scanned event
\* created it, and a later Placed / Taken event of T2 wrote its slots
C4_Witness ==
    /\ IsPlacedOrTaken(last) /\ last.RFID = "T2"
    /\ "T2" \in DOMAIN pre.users
    /\ tried # <<>> /\ failed = {}
    /\ \A id \in Range(tried) : slots[Pad(id)].takenBy = "T2"

\* C6: a payload that fails to decode upserts nothing, changes no Slot or
\* User row and leaves the process and the subscription as they were; the
\* message handled after it has its normal effect: a Placed / Taken event
\* of a registered tag writes its rows, a Scanned event leaves its User row.
C6_MalformedIgnored ==
    /\ Malformed(last) =>
          /\ users = pre.users /\ slots = pre.slots
          /\ tried = <<>> /\ failed = {} /\ ~userErr
    /\ mainPc = "blocked" /\ Subscribed
    /\ (prevBad /\ IsPlacedOrTaken(last) /\ last.RFID \in DOMAIN pre.users) =>
          /\ Range(tried) = Segments(last.slots)
          /\ \A id \in Fitting(last.slots) :
                Pad(id) \in DOMAIN slots /\ slots[Pad(id)] = RowOf(last)
    /\ (prevBad /\ IsScanned(last) /\ Len(last.RFID) <= UserIdWidth) =>
          last.RFID \in DOMAIN users

\* a Placed / Taken event handled right after a payload that did not decode
C6_Witness ==
    /\ prevBad
    /\ IsPlacedOrTaken(last)
    /\ tried # <<>> /\ failed = {}
    /\ slots # pre.slots

\* C9: a failed upsert ends neither the loop nor the process: every
\* non-empty segment is upserted once, in the order of the list; an upsert
\* fails exactly when the store rejects the row; every id whose upsert the
\* store accepted holds the event's row.
C9_SiblingsStillUpserted ==
    IsPlacedOrTaken(last) =>
        /\ tried = SelectSeq(Split(last.slots), LAMBDA id : id # <<>>)
        /\ failed = {id \in Range(tried) :
                        ~SlotRowOk(pre.users, id, last.RFID)}
        /\ \A id \in Range(tried) \ failed :
              Pad(id) \in DOMAIN slots /\ slots[Pad(id)] = RowOf(last)
        /\ mainPc = "blocked" /\ Subscribed

\* an id the store rejected came first, and the sibling after it was
\* upserted and written
C9_Witness ==
    /\ IsPlacedOrTaken(last)
    /\ Len(tried) = 2
    /\ tried[1] \in failed
    /\ tried[2] \notin failed
    /\ slots[Pad(tried[2])] = RowOf(last)
    /\ slots # pre.slots

\* C10 as stated: a Scanned event for a tag that has a User row leaves every
\* User row as it was.
C10_ScannedAgainNoOp ==
    (IsScanned(last) /\ last.RFID \in DOMAIN pre.users) => users = pre.users

\* C11: a payload that decodes to a status outside {0, 1, 2, 3} issues no
\* slot upsert and no user upsert; every Slot row and every User row is as
\* it was before.
C11_UnknownStatusNoOp ==
    (last.kind = "json"
        /\ last.status \notin {Placed, Taken, Scanned, Disconnected}) =>
        /\ tried = <<>> /\ failed = {}
        /\ ~userTried /\ ~userErr
        /\ users = pre.users /\ slots = pre.slots

\* status 4 with a tag that is registered and a slot list naming a slot
\* whose row is there, held by another tag
C11_Witness ==
    /\ last.kind = "json" /\ last.status = UnknownStatus
    /\ last.RFID \in DOMAIN pre.users
    /\ last.slots = <<"A">>
    /\ Pad(<<"A">>) \in DOMAIN slots
    /\ slots[Pad(<<"A">>)].takenBy # last.RFID
    /\ slots = pre.slots /\ users = pre.users

\* C12: a payload on the device stream that decodes to status Disconnected
\* (3), whatever its RFID and slots, and any payload on the device-will
\* topic, issues no slot upsert and no user upsert; every Slot row and
\* every User row is as it was before.
C12_DisconnectedNoOp ==
    ((last.kind = "json" /\ last.status = Disconnected) \/ last.kind = "will") =>
        /\ tried = <<>> /\ failed = {}
        /\ ~userTried /\ ~userErr
        /\ users = pre.users /\ slots = pre.slots

\* a Disconnected event of a registered tag, naming a slot whose row is
\* there and held by another tag
C12_Witness ==
    /\ last.kind = "json" /\ last.status = Disconnected
    /\ last.RFID \in DOMAIN pre.users
    /\ last.slots = <<"A">>
    /\ Pad(<<"A">>) \in DOMAIN slots
    /\ slots[Pad(<<"A">>)].takenBy # last.RFID
    /\ slots = pre.slots /\ users = pre.users

\* C17: handling a Placed or Taken event, whatever its tag and slot list
\* and whether its upserts are accepted or rejected, issues no user upsert;
\* the User rows after it are the User rows before it.
C17_UsersUntouched ==
    IsPlacedOrTaken(last) => (~userTried /\ ~userErr /\ users = pre.users)

\* an event of a tag without a User row: its upserts were rejected and the
\* tag still has no User row
C17_Witness ==
    /\ IsPlacedOrTaken(last)
    /\ last.RFID \notin DOMAIN users
    /\ tried # <<>>
    /\ failed # {}
    /\ users = pre.users

\* C18: a Placed or Taken event of a tag that has no User row has every
\* slot upsert rejected by the store; the Slot rows are as they were before
\* (rows that were absent are absent), so none was written with takenBy =
\* 'null' for it; the callback returns, the process and the subscription go
\* on.
C18_UnregisteredRejected ==
    (IsPlacedOrTaken(last) /\ last.RFID \notin DOMAIN pre.users) =>
        /\ Range(tried) = Segments(last.slots)
        /\ failed = Range(tried)
        /\ slots = pre.slots
        /\ users = pre.users
        /\ mainPc = "blocked" /\ Subscribed

\* "A;BBBBB" of a tag without a User row: both upserts rejected, the row of
\* A still at the sentinel as before, no row for BBBBB
C18_Witness ==
    /\ IsPlacedOrTaken(last)
    /\ last.RFID \notin DOMAIN pre.users
    /\ tried = << <<"A">>, FullId >>
    /\ failed = {<<"A">>, FullId}
    /\ Pad(<<"A">>) \in DOMAIN slots
    /\ slots[Pad(<<"A">>)] = [takenBy |-> NullUser, isTaken |-> FALSE]
    /\ FullId \notin DOMAIN slots

----------------------------------------------------------------------------
(* properties of callbacks running at once (SpecConc) *)

\* C5: in every reachable state, whatever was delivered and however the
\* running callbacks interleave, every Slot row's takenBy is the id of an
\* existing User row.
C5_ReferentialIntegrity ==
    \A k \in DOMAIN slots : slots[k].takenBy \in DOMAIN users

\* an upsert has been rejected, and a row of a registered tag is there
C5_Witness ==
    /\ failed # {}
    /\ \E k \in DOMAIN slots : slots[k].takenBy # NullUser

\* C13: however the loop iterations of callbacks running at once
\* interleave, a slot row holds the (takenBy, isTaken) pair of the upsert
\* the store accepted last for it, and that pair is the pair of one
\* delivered Placed / Taken event: never takenBy of one event with isTaken
\* of another. So it is once the callbacks have finished.
C13_LastCommitWins ==
    \A k \in DOMAIN commits :
        /\ k \in DOMAIN slots
        /\ slots[k] = commits[k]
        /\ <<k, slots[k]>> \in listed

\* two callbacks have finished that ran at once on events of different
\* registered tags and different status, both listing slot A; an upsert of
\* A was accepted while the other callback still had A to upsert
C13_Witness ==
    /\ \A t \in 1..MaxTasks : tasks[t] = IdleTask
    /\ Pad(<<"A">>) \in overlap
    /\ \E l1, l2 \in listed :
           /\ l1[1] = Pad(<<"A">>) /\ l2[1] = Pad(<<"A">>)
           /\ l1[2].takenBy # l2[2].takenBy
           /\ l1[2].isTaken # l2[2].isTaken
           /\ slots[Pad(<<"A">>)] = l2[2]
    /\ delivered = 2
    /\ failed = {}

\* each Slot row is the row of a delivered Placed / Taken event listing it
C19_RowsHaveAnEvent ==
    \A k \in DOMAIN slots : <<k, slots[k]>> \in listed

\* a step removes no Slot row and no User row
C19_NothingDeleted ==
    /\ DOMAIN slots \subseteq DOMAIN slots'
    /\ DOMAIN users \subseteq DOMAIN users'

\* C19: in every reachable state, whatever was delivered and however the
\* callbacks interleave, each Slot row that exists was written for a
\* delivered Placed / Taken event that lists the row's id: its takenBy is
\* that event's tag and its isTaken is TRUE exactly when the event is Taken.
\* No step of a callback removes a Slot row or a User row.
C19_Provenance == [](C19_RowsHaveAnEvent) /\ [][C19_NothingDeleted]_vars

\* two events have been handled, a Placed one and a Taken one of different
\* tags, and a row of each is there
C19_Witness ==
    /\ \A t \in 1..MaxTasks : tasks[t] = IdleTask
    /\ \E k1, k2 \in DOMAIN slots :
           /\ slots[k1].takenBy # slots[k2].takenBy
           /\ slots[k1].isTaken /\ ~slots[k2].isTaken
    /\ delivered >= 2

(* properties of the whole program (Spec) *)

\* C7 as stated: when the process has exited on the interrupt (main
\* returned from <-quit), start has called client.Disconnect.
C7_DisconnectBeforeExit ==
    mainPc = "exited" => client = "disconnected"

\* C8 as stated, for one interrupt raised while Notify is in force: once the
\* signal value has been received from quit, it is main that received it and
\* the process has exited; start has not taken it and left main blocked.
C8_InterruptReachesMain ==
    (sigs = 1 /\ mainPc # "killed" /\ quit = <<>>) => mainPc = "exited"

\* C14: whenever start has called client.Disconnect, the token of the
\* greeting publish and the tokens of both subscribes have completed, with
\* success or with an error; start is past wg.Wait only when they have.
C14_AcksBeforeDisconnect ==
    (client = "disconnected"
        \/ startPc \in {"select", "blocked", "disconnect", "returned"}) =>
        \A k \in Tokens : tok[k] \in {"ok", "err"}

\* start has disconnected and returned; one subscribe had completed with an
\* error, the publish with success
C14_Witness ==
    /\ client = "disconnected"
    /\ startPc = "returned"
    /\ tok["pub"] = "ok"
    /\ tok["will"] = "err"
    /\ tok["stream"] \in {"ok", "err"}

\* in a run whose ping or connect failed, nothing has been served
C16_NothingServed ==
    mainPc = "fatal" =>
        /\ startPc = "none"
        /\ \A k \in Tokens : tok[k] = "none"
        /\ delivered = 0
        /\ \A t \in 1..MaxTasks : tasks[t] = IdleTask
        /\ users = pre.users /\ slots = pre.slots
        /\ commits = <<>> /\ listed = {}

\* C16: when db.Ping or client.Connect has failed, the process has ended
\* before start was invoked: no subscribe was issued, no message was handed
\* to a callback, no upsert was issued and the store is as the process
\* found it; and from then on nothing more happens.
C16_FatalBeforeServing ==
    /\ [](C16_NothingServed)
    /\ [][mainPc # "fatal"]_vars

\* the process has ended on a failed ping or connect
C16_Witness ==
    /\ mainPc = "fatal"
    /\ startPc = "none"
    /\ client = "new"
    /\ delivered = 0

----------------------------------------------------------------------------
(* properties of the whole program, its goroutines scheduled (SpecFair) *)

\* the broker hands a device-stream message to the callback
StreamDelivery == \E t \in 1..MaxTasks, p \in ProgramPayloads : Deliver(t, p)

PastWait == startPc \in {"select", "blocked", "disconnect", "returned"}

\* what holds in every state, whichever tokens completed with an error
C15_Released ==
    /\ wg = Cardinality({k \in Tokens : tok[k] = "pending"})
    /\ mainPc = "fatal" => startPc = "none"
    /\ ((\E k \in Tokens : tok[k] = "err") /\ sigs = 0) => Alive
    /\ (/\ Alive /\ client = "connected" /\ delivered < budget
        /\ tok["stream"] = "ok"
        /\ \A t \in 1..MaxTasks : tasks[t] = IdleTask) => ENABLED StreamDelivery
    /\ (/\ Alive /\ client = "connected" /\ delivered < budget
        /\ tok["will"] = "ok") => ENABLED DeliverWill

\* C15: a subscribe token or the publish token that completes with an error
\* still releases the wait group (its counter is the number of tokens not
\* yet completed); the process does not end for it (it ends only on a
\* failed ping or connect, before start runs, or on an interrupt); the
\* broker's messages on a topic whose subscribe succeeded are still handed
\* to its callback; and start goes on to its select unless the process is
\* ended by an interrupt first.
C15_FailureNotFatal ==
    /\ [](C15_Released)
    /\ \A k \in Tokens : (tok[k] = "err") ~> (PastWait \/ ~Alive)

\* the will subscribe and the publish completed with an error; start is at
\* its select, the process runs, and a Placed / Taken event that arrived on
\* the device stream has had a row written
C15_Witness ==
    /\ tok["will"] = "err" /\ tok["pub"] = "err" /\ tok["stream"] = "ok"
    /\ PastWait /\ Alive
    /\ delivered = 1
    /\ slots # <<>>

====
